---- MODULE Spec2Model ----
(***************************************************************************)
(* Reputation-based escalation of a sentry decision, as implemented in     *)
(* src/reputation_policy.rs: the adaptive decay of a source's risk score,  *)
(* the selection of the worst record of a ledger snapshot, and the rule    *)
(* chain (medium, high, bad-actor, caller authorisation) that turns the    *)
(* draft decision into the final one.  Then the collaborators: the         *)
(* structural pre-scanner (src/xml_scan.rs), the construction of the       *)
(* secrets store (src/secrets.rs, src/startup.rs) and the config editing   *)
(* of the administration tool (src/bin/acipctl.rs).  Each component has    *)
(* its own specification; the variables of the others stay idle in it.     *)
(***************************************************************************)
EXTENDS Integers, Sequences, FiniteSets, TLC

VARIABLES
    decision,     \* the draft Decision handed to apply_reputation
    allow_tools,  \* the caller's explicit tool authorisation
    records,      \* the snapshot of reputation records (a list)
    t,            \* the ReputationThresholds
    now_unix,     \* the wall clock, in seconds since the epoch
    steps,        \* the values `decision` takes through one application
    result,       \* the Decision apply_reputation returned
    pc,           \* "call" before the application, "done" after it
    score,        \* the value effective_risk_score returned
    scan_input,   \* the text handed to scan, a list of characters
    scan_out,     \* the XmlScanResult scan returned
    fs_state,     \* the secrets file and its parent directory on disk
    secrets_file, \* the Option<PathBuf> handed to build_secrets_store
    secrets_out,  \* the Result build_secrets_store returned
    cfg_disk,     \* the config file on disk
    ctl_cmd,      \* the `config set` / `config unset` command line
    ctl_out       \* the outcome of handle_config: result and restart

repVars == <<decision, allow_tools, records, t, now_unix, steps, result>>
scanVars == <<scan_input, scan_out>>
secretsVars == <<fs_state, secrets_file, secrets_out>>
ctlVars == <<cfg_disk, ctl_cmd, ctl_out>>

vars == <<decision, allow_tools, records, t, now_unix, steps, result, pc,
          score, scan_input, scan_out, fs_state, secrets_file, secrets_out,
          cfg_disk, ctl_cmd, ctl_out>>

\* The values a component's variables hold while another component runs.
Idle == "idle"
DecayIdle == score = 0
ScanIdle == scan_input = <<>> /\ scan_out = Idle
SecretsIdle == fs_state = Idle /\ secrets_file = Idle /\ secrets_out = Idle
CtlIdle == cfg_disk = Idle /\ ctl_cmd = Idle /\ ctl_out = Idle

-----------------------------------------------------------------------------
(* Bounds of the model.                                                    *)

\* Longest ledger snapshot handed to one application.
MaxRecords == 2
\* Largest suspected_attack_count of a record.
MaxCount == 1
\* The clock runs from day 0 to day MaxDays.
MaxDays == 2

\* Seconds per day, the divisor of age_secs.
DaySecs == 86400

\* Source keys, raw risk scores and last-seen times of the ledger records.
Keys == {"a", "b"}
LedgerRisks == {2, 4}
LastSeenTimes == {0, 2 * DaySecs}
\* Raw risk scores of the single-record snapshots.
PolicyRisks == {0, 2, 4, 6}
\* Values the three (environment-configurable) score thresholds range over.
ThresholdScores == {1, 3, 5}

-----------------------------------------------------------------------------
(* Data model.                                                             *)

RiskLevels == {"Low", "Medium", "High"}
Actions == {"Allow", "Sanitize", "Block", "NeedsReview"}

\* RiskLevel is totally ordered Low < Medium < High.
RiskRank(level) ==
    CASE level = "Low" -> 0
      [] level = "Medium" -> 1
      [] level = "High" -> 2

ReputationRecord(key, risk, seen, count) ==
    [key |-> key, risk_score |-> risk, last_seen_unix |-> seen,
     suspected_attack_count |-> count]

\* half_life_base_days is held in whole days and half_life_k in halves
\* (half_life_k = half_life_k_halves / 2), so the defaults 2.0 and 0.5 are
\* 2 and 1.
ReputationThresholds(med, high, bad) ==
    [medium_score |-> med, high_score |-> high, bad_actor_score |-> bad,
     half_life_base_days |-> 2, half_life_k_halves |-> 1]

\* The policy reads and writes tools_allowed, risk_level, action and reasons;
\* fenced_content and detected_patterns travel with the value untouched.
Decision(tools, level, action, reasons) ==
    [tools_allowed |-> tools, risk_level |-> level, action |-> action,
     fenced_content |-> "<untrusted>content</untrusted>",
     reasons |-> reasons, detected_patterns |-> <<"xml:doctype">>]

-----------------------------------------------------------------------------
(* Arithmetic helpers.                                                     *)

RECURSIVE Pow(_, _)
Pow(b, e) == IF e = 0 THEN 1 ELSE b * Pow(b, e - 1)

RECURSIVE GCD(_, _)
GCD(a, b) == IF b = 0 THEN a ELSE GCD(b, a % b)

Max(S) == CHOOSE x \in S : \A y \in S : y <= x

\* 2^e <= n, decided by halving n so that no large power is formed.
RECURSIVE PowerOfTwoAtMost(_, _)
PowerOfTwoAtMost(e, n) ==
    IF e = 0 THEN n >= 1 ELSE n >= 2 /\ PowerOfTwoAtMost(e - 1, n \div 2)

-----------------------------------------------------------------------------
(* effective_risk_score                                                    *)

\* now_unix.saturating_sub(r.last_seen_unix)
AgeSecs(now, r) ==
    IF now >= r.last_seen_unix THEN now - r.last_seen_unix ELSE 0

\* hl_days = max(0.1, base * (1 + k * count)), as the fraction <<num, den>>.
\* base * (1 + (kh / 2) * count) = base * (2 + kh * count) / 2.
HalfLifeDays(r, th) ==
    LET num == th.half_life_base_days
                 * (2 + th.half_life_k_halves * r.suspected_attack_count)
    IN  IF 10 * num < 2 THEN <<1, 10>> ELSE <<num, 2>>

\* age_days / hl_days as the reduced fraction <<A, H>>, H > 0.
DecayExponent(now, r, th) ==
    LET hl == HalfLifeDays(r, th)
        a == AgeSecs(now, r) * hl[2]
        h == DaySecs * hl[1]
        g == GCD(a, h)
    IN  <<a \div g, h \div g>>

\* The f64 arithmetic is exact where it matters here: ages are whole days and
\* half-lives whole or half days, so the quotient age_days / hl_days is the
\* correctly rounded fraction A/H, 0.5^(A/H) is a power of two when H = 1 and
\* irrational (hence far from every half-integer multiple of 1/risk_score at
\* these magnitudes) otherwise.
\*
\* round(risk_score * 0.5^(A/H)), f64::round rounding halves away from zero:
\* the result is the largest v with risk_score * 2^(-A/H) >= v - 1/2, that is
\* (2 * risk_score)^H >= (2v - 1)^H * 2^A.  The decay is at most 1, so v lies
\* in 0..risk_score and the clamp to the u64 range leaves it alone.  No v >= 1
\* qualifies once 2^A alone exceeds (2 * risk_score)^H, which is tested first
\* to keep the products small under a half-life of 0.1 days.
effective_risk_score(now, r, th) ==
    IF r.risk_score = 0 THEN 0
    ELSE LET e == DecayExponent(now, r, th)
             A == e[1]
             H == e[2]
         IN  Max({v \in 0..r.risk_score :
                    \/ v = 0
                    \/ /\ PowerOfTwoAtMost(A, Pow(2 * r.risk_score, H))
                       /\ Pow(2 * r.risk_score, H)
                            >= Pow(2 * v - 1, H) * Pow(2, A)})

-----------------------------------------------------------------------------
(* apply_reputation                                                        *)

\* bump_risk_level with the last arm wrapping around instead of saturating.
bump_risk_level_wraps(level) ==
    CASE level = "Low" -> "Medium"
      [] level = "Medium" -> "High"
      [] level = "High" -> "Low"

bump_risk_level(level) ==
    CASE level = "Low" -> "Medium"
      [] level = "Medium" -> "High"
      [] level = "High" -> "High"

\* The comparison without the tie-break on suspected_attack_count.
IsWorse_eff_only(eff, count, best_eff, best_count) ==
    eff > best_eff

\* The comparison turned around: the least record replaces the current one.
IsWorse_flipped(eff, count, best_eff, best_count) ==
    \/ eff < best_eff
    \/ eff = best_eff /\ count < best_count

\* (eff, r.suspected_attack_count) > (*best_eff, best.suspected_attack_count):
\* Rust compares tuples lexicographically.
IsWorse(eff, count, best_eff, best_count) ==
    \/ eff > best_eff
    \/ eff = best_eff /\ count > best_count

\* The loop over records from position i on, worst_eff being Some(best).
RECURSIVE WorstFrom(_, _, _, _, _)
WorstFrom(recs, i, best, now, th) ==
    IF i > Len(recs) THEN best
    ELSE LET r == recs[i]
             eff == effective_risk_score(now, r, th)
         IN  IF IsWorse(eff, r.suspected_attack_count,
                        best.eff, best.rec.suspected_attack_count)
             THEN WorstFrom(recs, i + 1, [rec |-> r, eff |-> eff], now, th)
             ELSE WorstFrom(recs, i + 1, best, now, th)

\* worst_eff after the loop, for a non-empty list: the first record is taken
\* as it comes (the None arm), every later one only if it compares greater.
WorstEff(recs, now, th) ==
    WorstFrom(recs, 2,
              [rec |-> recs[1], eff |-> effective_risk_score(now, recs[1], th)],
              now, th)

\* The text of the audit reason.
SourceReputationReason(worst, effective_risk) ==
    "source reputation: key=" \o worst.key
      \o " effective_risk=" \o ToString(effective_risk)
      \o " raw_risk=" \o ToString(worst.risk_score)
      \o " suspected_attacks=" \o ToString(worst.suspected_attack_count)

HardCapReason == "tools hard-capped: source classified as bad actor"
NotAuthorizedReason == "tools not authorized by caller"

\* The context reason pushed only for a source that still carries risk.
PushContext_unless_zero(d, worst, effective_risk) ==
    IF effective_risk = 0 THEN d
    ELSE [d EXCEPT !.reasons =
            Append(@, SourceReputationReason(worst, effective_risk))]

\* decision.reasons.push(format!("source reputation: ..."))
PushContext(d, worst, effective_risk) ==
    [d EXCEPT !.reasons =
        Append(@, SourceReputationReason(worst, effective_risk))]

\* The medium rule with a strict comparison.
MediumRule_strict(d, effective_risk, th) ==
    IF effective_risk > th.medium_score
    THEN [d EXCEPT !.risk_level = bump_risk_level(@)]
    ELSE d

\* if effective_risk >= t.medium_score { bump }
MediumRule(d, effective_risk, th) ==
    IF effective_risk >= th.medium_score
    THEN [d EXCEPT !.risk_level = bump_risk_level(@)]
    ELSE d

\* The high rule without the guard that keeps a Block.
HighRule_overwrites_block(d, effective_risk, th) ==
    IF effective_risk >= th.high_score
    THEN [d EXCEPT !.risk_level = "High", !.action = "NeedsReview"]
    ELSE d

\* if effective_risk >= t.high_score { High; NeedsReview unless Block }
HighRule(d, effective_risk, th) ==
    IF effective_risk >= th.high_score
    THEN [d EXCEPT !.risk_level = "High",
                   !.action = IF @ = "Block" THEN @ ELSE "NeedsReview"]
    ELSE d

\* The bad-actor cutoff without the cap on tools.
BadActorRule_no_cap(d) ==
    [d EXCEPT !.risk_level = "High",
              !.action = IF @ = "Block" THEN @ ELSE "NeedsReview"]

\* The body of the bad-actor cutoff, which returns.
BadActorRule(d) ==
    LET capped == IF d.tools_allowed
                  THEN [d EXCEPT !.tools_allowed = FALSE,
                                 !.reasons = Append(@, HardCapReason)]
                  ELSE d
    IN  [capped EXCEPT !.risk_level = "High",
                       !.action = IF @ = "Block" THEN @ ELSE "NeedsReview"]

\* The caller rule left out: reputation below the cutoff keeps the draft's tools.
CallerRule_skipped(d, allow) == d

\* The caller rule assigning the caller's flag instead of only revoking.
CallerRule_assigns(d, allow) ==
    IF d.tools_allowed # allow
    THEN [d EXCEPT !.tools_allowed = allow,
                   !.reasons = Append(@, NotAuthorizedReason)]
    ELSE d

\* Below the bad-actor cutoff: tools stay only with the caller's authorisation.
CallerRule(d, allow) ==
    IF d.tools_allowed /\ ~allow
    THEN [d EXCEPT !.tools_allowed = FALSE,
                   !.reasons = Append(@, NotAuthorizedReason)]
    ELSE d

\* The application without the early return: an empty list falls through to
\* the caller rule.
ApplySteps_no_early_return(d, allow, recs, th, now) ==
    IF recs = <<>> THEN <<d, CallerRule(d, allow)>>
    ELSE LET w == WorstEff(recs, now, th)
             s1 == PushContext(d, w.rec, w.eff)
             s2 == MediumRule(s1, w.eff, th)
             s3 == HighRule(s2, w.eff, th)
             s4 == IF w.eff >= th.bad_actor_score
                   THEN BadActorRule(s3)
                   ELSE CallerRule(s3, allow)
         IN  <<d, s1, s2, s3, s4>>

\* The values `decision` holds through one application, in order: the draft,
\* then (for a non-empty list) after the context reason, after the medium
\* rule, after the high rule, and after the bad-actor cutoff or, below it,
\* the caller rule.  The last one is returned.
ApplySteps(d, allow, recs, th, now) ==
    IF recs = <<>> THEN <<d>>
    ELSE LET w == WorstEff(recs, now, th)
             s1 == PushContext(d, w.rec, w.eff)
             s2 == MediumRule(s1, w.eff, th)
             s3 == HighRule(s2, w.eff, th)
             s4 == IF w.eff >= th.bad_actor_score
                   THEN BadActorRule(s3)
                   ELSE CallerRule(s3, allow)
         IN  <<d, s1, s2, s3, s4>>

apply_reputation(d, allow, recs, th, now) ==
    LET s == ApplySteps(d, allow, recs, th, now) IN s[Len(s)]

-----------------------------------------------------------------------------
(* Inputs                                                                  *)

\* Lists over S of length at most n.
RECURSIVE SeqsUpTo(_, _)
SeqsUpTo(S, n) ==
    IF n = 0 THEN {<<>>}
    ELSE LET shorter == SeqsUpTo(S, n - 1)
         IN  shorter \cup {Append(s, x) : s \in {q \in shorter : Len(q) = n - 1},
                                          x \in S}

DraftReasons == <<"sentry: draft verdict">>

\* Every draft the sentry may hand over.
Decisions ==
    {Decision(tools, level, action, DraftReasons) :
        tools \in BOOLEAN, level \in RiskLevels, action \in Actions}

\* The three score thresholds in every order, ties included.
Thresholds ==
    {ReputationThresholds(m, h, b) :
        m \in ThresholdScores, h \in ThresholdScores, b \in ThresholdScores}

\* Snapshots of at most one record of one source, never seen after day 0.
PolicyRecords == {ReputationRecord("a", r, 0, 0) : r \in PolicyRisks}
PolicySnapshots == SeqsUpTo(PolicyRecords, 1)

\* Snapshots of several sources' records.
LedgerRecords ==
    {ReputationRecord(k, r, s, c) :
        k \in Keys, r \in LedgerRisks, s \in LastSeenTimes, c \in 0..MaxCount}
LedgerSnapshots == SeqsUpTo(LedgerRecords, MaxRecords)

\* The draft of the multi-record calls: everything still permitted.
PermissiveDraft == Decision(TRUE, "Low", "Allow", DraftReasons)
LedgerThresholds == ReputationThresholds(1, 3, 5)

-----------------------------------------------------------------------------
(* The state machine: one call of apply_reputation under a running clock.  *)

\* Either any draft under any thresholds against a snapshot of at most one
\* record, or the permissive draft against a snapshot of several records.
Init ==
    /\ \/ /\ decision \in Decisions
          /\ t \in Thresholds
          /\ records \in PolicySnapshots
       \/ /\ decision = PermissiveDraft
          /\ t = LedgerThresholds
          /\ records \in LedgerSnapshots
    /\ allow_tools \in BOOLEAN
    /\ now_unix = 0
    /\ steps = <<>>
    /\ result = decision
    /\ pc = "call"
    /\ DecayIdle /\ ScanIdle /\ SecretsIdle /\ CtlIdle

\* A day passes before the call is made.
Tick ==
    /\ pc = "call"
    /\ now_unix < MaxDays * DaySecs
    /\ now_unix' = now_unix + DaySecs
    /\ UNCHANGED <<decision, allow_tools, records, t, steps, result, pc>>
    /\ UNCHANGED <<score, scanVars, secretsVars, ctlVars>>

\* The call: SystemTime::now() is read once, the rules run, the value returns.
ApplyReputation ==
    /\ pc = "call"
    /\ steps' = ApplySteps(decision, allow_tools, records, t, now_unix)
    /\ result' = apply_reputation(decision, allow_tools, records, t, now_unix)
    /\ pc' = "done"
    /\ UNCHANGED <<decision, allow_tools, records, t, now_unix>>
    /\ UNCHANGED <<score, scanVars, secretsVars, ctlVars>>

Next == Tick \/ ApplyReputation

Spec == Init /\ [][Next]_vars

\* The records evidence is drawn from when a snapshot grows: two records of a
\* source last seen on day 0 and one of a repeat offender seen on day 2.
EvidenceRecords ==
    {ReputationRecord("a", 2, 0, 0), ReputationRecord("a", 4, 0, 0),
     ReputationRecord("b", 6, 2 * DaySecs, MaxCount)}

\* Any draft, any thresholds and a snapshot that can still take one record.
EvidenceInit ==
    /\ decision \in Decisions
    /\ t \in Thresholds
    /\ records \in SeqsUpTo(EvidenceRecords, MaxRecords - 1)
    /\ allow_tools \in BOOLEAN
    /\ now_unix = 0
    /\ steps = <<>>
    /\ result = decision
    /\ pc = "call"
    /\ DecayIdle /\ ScanIdle /\ SecretsIdle /\ CtlIdle

SpecEvidence == EvidenceInit /\ [][Next]_vars

-----------------------------------------------------------------------------
(* ReputationThresholds::from_env and effective_risk_score on its own.     *)

\* An environment variable: absent, text that does not parse, or a number.
\* The two half-life variables hold f64 text; ACIP_REP_HALFLIFE_K is given in
\* halves, so "-0.5" is -1 and "1.0" is 2.
EnvUnset == [kind |-> "unset", value |-> 0]
EnvGarbage == [kind |-> "garbage", value |-> 0]
EnvNumber(n) == [kind |-> "number", value |-> n]

\* std::env::var(name).ok().and_then(|v| v.trim().parse::<u64>().ok())
\*     .unwrap_or(default): a negative number is no u64.
GetU64(v, default) ==
    IF v.kind = "number" /\ v.value >= 0 THEN v.value ELSE default

\* The same with parse::<f64>(), which takes any sign.
GetF64(v, default) ==
    IF v.kind = "number" THEN v.value ELSE default

from_env(env) ==
    [medium_score |-> GetU64(env.ACIP_REP_MED, 20),
     high_score |-> GetU64(env.ACIP_REP_HIGH, 50),
     bad_actor_score |-> GetU64(env.ACIP_REP_BAD, 150),
     half_life_base_days |-> GetF64(env.ACIP_REP_HALFLIFE_BASE_DAYS, 2),
     half_life_k_halves |-> GetF64(env.ACIP_REP_HALFLIFE_K, 1)]

\* Environments: the score thresholds left to their defaults, the half-life
\* base absent, unparseable, 1.0 or -1.0, and k absent, 0, 1.0, -0.5 or -2.0.
DecayEnvs ==
    {[ACIP_REP_MED |-> EnvUnset, ACIP_REP_HIGH |-> EnvNumber(-1),
      ACIP_REP_BAD |-> EnvGarbage,
      ACIP_REP_HALFLIFE_BASE_DAYS |-> b, ACIP_REP_HALFLIFE_K |-> k] :
        b \in {EnvUnset, EnvGarbage, EnvNumber(1), EnvNumber(-1)},
        k \in {EnvUnset, EnvNumber(0), EnvNumber(2), EnvNumber(-1), EnvNumber(-4)}}

\* Records the decay is computed for.
DecayRisks == {0, 1, 4, 6}
DecayRecords ==
    {ReputationRecord("a", r, s, c) :
        r \in DecayRisks, s \in LastSeenTimes, c \in 0..MaxCount}

\* The thresholds are loaded once, then one record is scored at some time.
DecayInit ==
    /\ t \in {from_env(env) : env \in DecayEnvs}
    /\ records \in {<<r>> : r \in DecayRecords}
    /\ now_unix = 0
    /\ score = 0
    /\ pc = "call"
    /\ allow_tools = FALSE
    /\ decision = Idle /\ steps = <<>> /\ result = Idle
    /\ ScanIdle /\ SecretsIdle /\ CtlIdle

\* effective_risk_score(now_unix, r, t)
Score ==
    /\ pc = "call"
    /\ score' = effective_risk_score(now_unix, records[1], t)
    /\ pc' = "scored"
    /\ UNCHANGED <<repVars, scanVars, secretsVars, ctlVars>>

DecayNext == Tick \/ Score

SpecDecay == DecayInit /\ [][DecayNext]_vars

-----------------------------------------------------------------------------
(* The structural pre-scanner: scan.                                       *)

\* The largest u8, where saturating_add stops.
U8Max == 255

\* The reputation variables while another component runs.
RepIdle ==
    /\ decision = Idle /\ allow_tools = FALSE /\ records = <<>> /\ t = Idle
    /\ now_unix = 0 /\ steps = <<>> /\ result = Idle

\* Text is a list of one-character strings.  PATTERNS, in the order of the
\* table: name and literal.
PATTERNS ==
    <<<<"doctype", <<"<", "!", "d", "o", "c", "t", "y", "p", "e">>>>,
      <<"entity", <<"<", "!", "e", "n", "t", "i", "t", "y">>>>,
      <<"dtd_system", <<" ", "s", "y", "s", "t", "e", "m">>>>,
      <<"dtd_public", <<" ", "p", "u", "b", "l", "i", "c">>>>,
      <<"href", <<"h", "r", "e", "f", "=">>>>,
      <<"xlink_href", <<"x", "l", "i", "n", "k", ":", "h", "r", "e", "f", "=">>>>,
      <<"src", <<"s", "r", "c", "=">>>>,
      <<"http", <<"h", "t", "t", "p", ":", "/", "/">>>>,
      <<"https", <<"h", "t", "t", "p", "s", ":", "/", "/">>>>,
      <<"script_tag", <<"<", "s", "c", "r", "i", "p", "t">>>>,
      <<"onload", <<"o", "n", "l", "o", "a", "d", "=">>>>,
      <<"onerror", <<"o", "n", "e", "r", "r", "o", "r", "=">>>>,
      <<"javascript", <<"j", "a", "v", "a", "s", "c", "r", "i", "p", "t", ":">>>>>>

PatternName(idx) == PATTERNS[idx][1]
PatternText(idx) == PATTERNS[idx][2]

\* ascii_case_insensitive(true): letters compare by their lower-case form.
UpperCase ==
    <<"A", "B", "C", "D", "E", "F", "G", "H", "I", "J", "K", "L", "M",
      "N", "O", "P", "Q", "R", "S", "T", "U", "V", "W", "X", "Y", "Z">>
LowerCase ==
    <<"a", "b", "c", "d", "e", "f", "g", "h", "i", "j", "k", "l", "m",
      "n", "o", "p", "q", "r", "s", "t", "u", "v", "w", "x", "y", "z">>
ToAsciiLower ==
    [c \in {UpperCase[i] : i \in 1..Len(UpperCase)} |->
        LowerCase[CHOOSE i \in 1..Len(UpperCase) : UpperCase[i] = c]]
AsciiLower(c) == IF c \in DOMAIN ToAsciiLower THEN ToAsciiLower[c] ELSE c

\* The literal pat occurs in text starting at position b.
MatchesAt(text, b, pat) ==
    /\ b + Len(pat) - 1 <= Len(text)
    /\ \A k \in 1..Len(pat) : AsciiLower(text[b + k - 1]) = AsciiLower(pat[k])

\* Every occurrence of every pattern: begin, end, pattern index.
Occurrences(text) ==
    {o \in {[begin |-> b, end |-> b + Len(PatternText(i)) - 1, idx |-> i] :
               b \in 1..Len(text), i \in 1..Len(PATTERNS)} :
        MatchesAt(text, o.begin, PatternText(o.idx))}

\* One step of find_iter with the automaton's default (standard) semantics,
\* searching from position start: the match reported is the first to end;
\* of several patterns ending there the automaton's state reports its own,
\* the longest.  NoMatch when the search runs off the text.
NoMatch == [begin |-> 0, end |-> 0, idx |-> 0]
FindFrom(occ, start) ==
    LET ahead == {o \in occ : o.begin >= start}
    IN  IF ahead = {} THEN NoMatch
        ELSE LET firstEnd == CHOOSE e \in {o.end : o \in ahead} :
                                \A o \in ahead : e <= o.end
                 ending == {o \in ahead : o.end = firstEnd}
             IN  CHOOSE o \in ending : \A q \in ending : o.begin <= q.begin

\* find_iter: the non-overlapping matches from position start on, in order.
RECURSIVE FindIter(_, _)
FindIter(occ, start) ==
    LET m == FindFrom(occ, start)
    IN  IF m = NoMatch THEN <<>>
        ELSE <<m.idx>> \o FindIter(occ, m.end + 1)

\* XmlScanResult::default()
DefaultScanResult ==
    [has_doctype |-> FALSE, has_entity |-> FALSE, has_external_ref |-> FALSE,
     has_scriptish |-> FALSE, matches |-> <<>>, severity |-> 0]

\* The match arm with the scheme markers' flag also set by the attribute names.
OnMatch_attributes_count(out, name) ==
    LET pushed == [out EXCEPT !.matches = Append(@, name)]
    IN  CASE name = "doctype" -> [pushed EXCEPT !.has_doctype = TRUE]
          [] name = "entity" -> [pushed EXCEPT !.has_entity = TRUE]
          [] name \in {"dtd_system", "dtd_public"} ->
                [pushed EXCEPT !.has_doctype = TRUE]
          [] name \in {"http", "https", "href", "xlink_href", "src"} ->
                [pushed EXCEPT !.has_external_ref = TRUE]
          [] name \in {"script_tag", "onload", "onerror", "javascript"} ->
                [pushed EXCEPT !.has_scriptish = TRUE]
          [] OTHER -> pushed

\* The body of the loop: push the name, then the match on it.
OnMatch(out, name) ==
    LET pushed == [out EXCEPT !.matches = Append(@, name)]
    IN  CASE name = "doctype" -> [pushed EXCEPT !.has_doctype = TRUE]
          [] name = "entity" -> [pushed EXCEPT !.has_entity = TRUE]
          [] name \in {"dtd_system", "dtd_public"} ->
                [pushed EXCEPT !.has_doctype = TRUE]
          [] name \in {"http", "https"} ->
                [pushed EXCEPT !.has_external_ref = TRUE]
          [] name \in {"href", "xlink_href", "src"} -> pushed
          [] name \in {"script_tag", "onload", "onerror", "javascript"} ->
                [pushed EXCEPT !.has_scriptish = TRUE]
          [] OTHER -> pushed

RECURSIVE ScanLoop(_, _, _)
ScanLoop(out, found, i) ==
    IF i > Len(found) THEN out
    ELSE ScanLoop(OnMatch(out, PatternName(found[i])), found, i + 1)

\* The pattern names in the order of String's Ord (byte order).
SortedNames ==
    <<"doctype", "dtd_public", "dtd_system", "entity", "href", "http",
      "https", "javascript", "onerror", "onload", "script_tag", "src",
      "xlink_href">>

\* matches.sort(); matches.dedup()
SortDedup(names) ==
    SelectSeq(SortedNames, LAMBDA n : \E i \in 1..Len(names) : names[i] = n)

\* u8::saturating_add
SaturatingAdd(a, b) == IF a + b > U8Max THEN U8Max ELSE a + b

\* The severity heuristic with the external-reference weight forgotten.
Severity_without_external(out) ==
    LET s1 == IF out.has_entity THEN SaturatingAdd(0, 3) ELSE 0
        s2 == IF out.has_doctype THEN SaturatingAdd(s1, 2) ELSE s1
        s3 == IF out.has_scriptish THEN SaturatingAdd(s2, 2) ELSE s2
    IN  s3

\* The severity heuristic.
Severity(out) ==
    LET s1 == IF out.has_entity THEN SaturatingAdd(0, 3) ELSE 0
        s2 == IF out.has_doctype THEN SaturatingAdd(s1, 2) ELSE s1
        s3 == IF out.has_scriptish THEN SaturatingAdd(s2, 2) ELSE s2
        s4 == IF out.has_external_ref THEN SaturatingAdd(s3, 1) ELSE s3
    IN  s4

scan(input) ==
    IF input = <<>> THEN DefaultScanResult
    ELSE LET found == FindIter(Occurrences(input), 1)
             looped == ScanLoop(DefaultScanResult, found, 1)
             deduped == [looped EXCEPT !.matches = SortDedup(@)]
         IN  [deduped EXCEPT !.severity = Severity(deduped)]

\* Longest input, in fragments.
MaxFragments == 2

\* Pieces of markup an input is put together from: every marker in some
\* letter case, the two halves of markers that only form across a seam, and
\* a neutral character, and a document type declaring an external entity.
Fragments ==
    {<<"<", "!", "D", "O", "C", "T", "Y", "P", "E">>,
     <<"<", "!", "E", "n", "t", "i", "t", "y">>,
     <<" ", "S", "Y", "S", "T", "E", "M">>,
     <<" ", "p", "u", "b", "l", "i", "c">>,
     <<"h", "r", "e", "f", "=">>,
     <<"x", "l", "i", "n", "k", ":">>,
     <<"X", "L", "i", "n", "k", ":", "H", "r", "e", "f", "=">>,
     <<"s", "r", "c", "=">>,
     <<"h", "t", "t", "p", ":", "/", "/">>,
     <<"H", "T", "T", "P", "S", ":", "/", "/">>,
     <<"<", "s", "c", "r", "i", "p", "t">>,
     <<"o", "n", "l", "o", "a", "d", "=">>,
     <<"o", "n", "e", "r", "r", "o", "r", "=">>,
     <<"J", "a", "v", "a", "S", "c", "r", "i", "p", "t", ":">>,
     <<"x">>,
     <<"<", "!", "e", "n", "t">>,
     <<"i", "t", "y">>,
     <<"<", "!", "D", "O", "C", "T", "Y", "P", "E", " ", "a", " ",
       "[", "<", "!", "E", "N", "T", "I", "T", "Y", " ", "b", " ", "S",
       "Y", "S", "T", "E", "M", " ", "'", "h", "t", "t", "p", ":", "/",
       "/", "c", "'", ">">>}

RECURSIVE Concat(_)
Concat(parts) ==
    IF parts = <<>> THEN <<>> ELSE Head(parts) \o Concat(Tail(parts))

ScanInputs == {Concat(parts) : parts \in SeqsUpTo(Fragments, MaxFragments)}

ScanInit ==
    /\ scan_input \in ScanInputs
    /\ scan_out = Idle
    /\ pc = "scan"
    /\ RepIdle /\ DecayIdle /\ SecretsIdle /\ CtlIdle

Scan ==
    /\ pc = "scan"
    /\ scan_out' = scan(scan_input)
    /\ pc' = "scanned"
    /\ UNCHANGED <<scan_input, repVars, score, secretsVars, ctlVars>>

ScanNext == Scan

SpecScan == ScanInit /\ [][ScanNext]_vars

-----------------------------------------------------------------------------
(* Startup: build_secrets_store, on a unix build (the permission checks    *)
(* are compiled under cfg(unix)).                                          *)

\* st_mode as fs::metadata reports it: the file type bits and the
\* permission bits (S_IFREG is octal 100000, S_IFDIR octal 40000).
RegularFile(perm) == 32768 + perm
Directory(perm) == 16384 + perm

\* Permission bits tried, octal 600, 400, 640, 604, 644, 700, 750, 755, 701.
FilePerms == {384, 256, 416, 388, 420}
DirPerms == {448, 488, 493, 449}

\* mode & 0o777 and mode & 0o077
PermissionBits(mode) == mode % 512
GroupOtherBits(mode) == PermissionBits(mode) % 64

Uids == {0, 1000}

\* What the call finds at the path and at path.parent().  exists: what
\* path.exists() answers; mode, uid: the metadata of the path; readable:
\* whether read_to_string succeeds; parent: "none" when path.parent() is
\* None, "unreadable" when fs::metadata(parent) fails, "dir" otherwise, with
\* pmode and puid its metadata.  A path without a parent is the root
\* directory (or the empty path, which does not exist): it cannot be read as
\* a file.
NoFile ==
    [exists |-> FALSE, mode |-> 0, uid |-> 0, readable |-> FALSE,
     parent |-> "dir", pmode |-> Directory(448), puid |-> 0]
FsStates ==
    {NoFile}
    \cup {[exists |-> TRUE, mode |-> RegularFile(m), uid |-> u, readable |-> rd,
           parent |-> "dir", pmode |-> Directory(pm), puid |-> pu] :
            m \in FilePerms, u \in Uids, rd \in BOOLEAN,
            pm \in DirPerms, pu \in Uids}
    \cup {[exists |-> TRUE, mode |-> RegularFile(m), uid |-> u, readable |-> rd,
           parent |-> "unreadable", pmode |-> 0, puid |-> 0] :
            m \in FilePerms, u \in Uids, rd \in BOOLEAN}
    \cup {[exists |-> TRUE, mode |-> Directory(pm), uid |-> u,
           readable |-> FALSE, parent |-> "none", pmode |-> 0, puid |-> 0] :
            pm \in DirPerms, u \in Uids}

SecretsOk(value) == [kind |-> "ok", value |-> value]
SecretsErr(why) == [kind |-> "err", value |-> why]

\* ensure_secure_dotenv with the comparison of the owners left out.
ensure_secure_dotenv_any_owner(fs) ==
    IF ~ fs.exists THEN SecretsErr("dotenv file not found")
    ELSE IF GroupOtherBits(fs.mode) # 0
    THEN SecretsErr("dotenv file permissions too open")
    ELSE IF fs.parent = "none" THEN SecretsOk("checked")
    ELSE IF fs.parent = "unreadable" THEN SecretsErr("io")
    ELSE IF GroupOtherBits(fs.pmode) # 0
    THEN SecretsErr("dotenv parent dir permissions too open")
    ELSE SecretsOk("checked")

ensure_secure_dotenv(fs) ==
    IF ~ fs.exists THEN SecretsErr("dotenv file not found")
    ELSE IF GroupOtherBits(fs.mode) # 0
    THEN SecretsErr("dotenv file permissions too open")
    ELSE IF fs.parent = "none" THEN SecretsOk("checked")
    ELSE IF fs.parent = "unreadable" THEN SecretsErr("io")
    ELSE IF GroupOtherBits(fs.pmode) # 0
    THEN SecretsErr("dotenv parent dir permissions too open")
    ELSE IF fs.uid # fs.puid THEN SecretsErr("dotenv ownership mismatch")
    ELSE SecretsOk("checked")

\* EnvFileStore::load: the check, then the read; the parse cannot fail.
EnvFileStore_load(fs) ==
    LET checked == ensure_secure_dotenv(fs)
    IN  IF checked.kind = "err" THEN checked
        ELSE IF ~ fs.readable THEN SecretsErr("failed reading dotenv file")
        ELSE SecretsOk("EnvFileStore")

\* The store built is named by the stores it resolves from, in order.
build_secrets_store(file, fs) ==
    IF file = "some"
    THEN LET file_store == EnvFileStore_load(fs)
         IN  IF file_store.kind = "err" THEN file_store
             ELSE SecretsOk(<<file_store.value, "EnvStore">>)
    ELSE SecretsOk(<<"EnvStore">>)

SecretsInit ==
    /\ fs_state \in FsStates
    /\ secrets_file \in {"none", "some"}
    /\ secrets_out = Idle
    /\ pc = "startup"
    /\ RepIdle /\ DecayIdle /\ ScanIdle /\ CtlIdle

BuildSecretsStore ==
    /\ pc = "startup"
    /\ secrets_out' = build_secrets_store(secrets_file, fs_state)
    /\ pc' = "built"
    /\ UNCHANGED <<fs_state, secrets_file, repVars, score, scanVars, ctlVars>>

SecretsNext == BuildSecretsStore

SpecSecrets == SecretsInit /\ [][SecretsNext]_vars

-----------------------------------------------------------------------------
(* acipctl: config set and config unset.                                   *)

\* A TOML item: nothing, a scalar, or a table of items by key.  A document
\* is its root table; the text on disk is taken as the document it parses
\* to, and a text that does not parse as "garbage".
NoTable == [k \in {} |-> 0]
NoValue == <<"", "">>
ItemNone == [kind |-> "none", v |-> NoValue, entries |-> NoTable]
ItemValue(type, text) ==
    [kind |-> "value", v |-> <<type, text>>, entries |-> NoTable]
ItemTable(entries) == [kind |-> "table", v |-> NoValue, entries |-> entries]
EmptyTable == ItemTable(NoTable)

\* Index: item[p], NONE for a missing key or an item that is no table.
ItemGet(item, p) ==
    IF item.kind = "table" /\ p \in DOMAIN item.entries
    THEN item.entries[p] ELSE ItemNone

\* table[p] = new
ItemPut(table, p, new) ==
    ItemTable([k \in DOMAIN table.entries \cup {p} |->
                 IF k = p THEN new ELSE table.entries[k]])

\* table.remove(p)
ItemRemove(table, p) ==
    ItemTable([k \in DOMAIN table.entries \ {p} |-> table.entries[k]])

\* The value texts tried, and parse_toml_value on them: true or false in
\* any letter case to a boolean, then an i64, then an f64, else the
\* trimmed string.
ValueTexts == {"TRUE", "42", " text "}
parse_toml_value(text) ==
    CASE text = "TRUE" -> ItemValue("boolean", "true")
      [] text = "42" -> ItemValue("integer", "42")
      [] text = " text " -> ItemValue("string", "text")

\* Longest dotted key, in parts between the dots.
MaxKeyParts == 2

\* The parts a dotted key splits into at its dots, empty ones included.
KeyParts == {"a", "b", ""}
DottedKeys == SeqsUpTo(KeyParts, MaxKeyParts) \ {<<>>}

\* split('.').filter(|p| !p.is_empty())
SplitKey(dotted_key) == SelectSeq(dotted_key, LAMBDA part : part # "")

\* The loop of set_config_value from the item cur on: intermediate tables
\* are made where there is none, the last part is assigned.
RECURSIVE SetWalk(_, _, _)
SetWalk(cur, parts, new) ==
    IF Len(parts) = 1 THEN ItemPut(cur, parts[1], new)
    ELSE LET child == ItemGet(cur, parts[1])
             table == IF child.kind = "table" THEN child ELSE EmptyTable
         IN  ItemPut(cur, parts[1], SetWalk(table, Tail(parts), new))

\* The walk of unset_config_value from the item cur on: NothingToDo when a
\* part on the way is missing or the parent is no table, else cur with the
\* last part removed.
NothingToDo == [kind |-> "nothing", v |-> NoValue, entries |-> NoTable]
RECURSIVE UnsetWalk(_, _)
UnsetWalk(cur, parts) ==
    IF Len(parts) = 1
    THEN IF cur.kind = "table" THEN ItemRemove(cur, parts[1]) ELSE NothingToDo
    ELSE IF ItemGet(cur, parts[1]).kind = "none" THEN NothingToDo
    ELSE LET below == UnsetWalk(ItemGet(cur, parts[1]), Tail(parts))
         IN  IF below = NothingToDo THEN NothingToDo
             ELSE ItemPut(cur, parts[1], below)

\* The config file: missing (or unreadable), not TOML, or a document.
DiskMissing == [state |-> "missing", doc |-> EmptyTable]
DiskGarbage == [state |-> "garbage", doc |-> EmptyTable]
DiskToml(doc) == [state |-> "toml", doc |-> doc]
DiskDocs ==
    {EmptyTable,
     ItemTable([k \in {"a"} |-> ItemValue("integer", "1")]),
     ItemTable([k \in {"a"} |->
                  ItemTable([j \in {"b"} |-> ItemValue("string", "x")])]),
     ItemTable([k \in {"a", "b"} |->
                  IF k = "a"
                  THEN ItemTable([j \in {"b"} |-> ItemValue("string", "x")])
                  ELSE ItemValue("boolean", "false")])}
DiskStates == {DiskMissing, DiskGarbage} \cup {DiskToml(d) : d \in DiskDocs}

\* The outcome of an edit: its result ("ok" or the error's context) and the
\* file afterwards.
Edited(outcome, disk) == [result |-> outcome, disk |-> disk]

\* write_atomic: the file is replaced by the temporary file's rename, or
\* an error leaves it as it was.
write_atomic(disk, doc, write_ok) ==
    IF write_ok THEN Edited("ok", DiskToml(doc)) ELSE Edited("write", disk)

\* set_config_value with the write ahead of the validation.
set_config_value_writes_first(disk, dotted_key, value, accepts, write_ok) ==
    IF disk.state = "missing" THEN Edited("read", disk)
    ELSE IF disk.state = "garbage" THEN Edited("parse toml", disk)
    ELSE LET parts == SplitKey(dotted_key)
         IN  IF parts = <<>> THEN Edited("invalid key", disk)
             ELSE LET doc == SetWalk(disk.doc, parts, parse_toml_value(value))
                      written == write_atomic(disk, doc, write_ok)
                  IN  IF written.result # "ok" THEN written
                      ELSE IF ~ accepts
                      THEN Edited("validate config", written.disk)
                      ELSE written

\* accepts: whether the edited document deserializes into config::Config.
set_config_value(disk, dotted_key, value, accepts, write_ok) ==
    IF disk.state = "missing" THEN Edited("read", disk)
    ELSE IF disk.state = "garbage" THEN Edited("parse toml", disk)
    ELSE LET parts == SplitKey(dotted_key)
         IN  IF parts = <<>> THEN Edited("invalid key", disk)
             ELSE LET doc == SetWalk(disk.doc, parts, parse_toml_value(value))
                  IN  IF ~ accepts THEN Edited("validate config", disk)
                      ELSE write_atomic(disk, doc, write_ok)

unset_config_value(disk, dotted_key, accepts, write_ok) ==
    IF disk.state = "missing" THEN Edited("read", disk)
    ELSE IF disk.state = "garbage" THEN Edited("parse toml", disk)
    ELSE LET parts == SplitKey(dotted_key)
         IN  IF parts = <<>> THEN Edited("invalid key", disk)
             ELSE LET doc == UnsetWalk(disk.doc, parts)
                  IN  IF doc = NothingToDo THEN Edited("ok", disk)
                      ELSE IF ~ accepts THEN Edited("validate config", disk)
                      ELSE write_atomic(disk, doc, write_ok)

\* restart_service: systemctl for the system and user modes, the command
\* only printed for docker compose.
RestartModes == {"System", "User", "DockerCompose"}
restart_service(mode, restart_ok) ==
    IF mode = "DockerCompose" THEN "printed"
    ELSE IF restart_ok THEN "restarted" ELSE "restart failed"

\* The arm of handle_config after the edit: the edit's error, or no restart
\* when asked so, or the restart.
AfterEdit(edited, cmd) ==
    [edit |-> edited.result,
     restart |-> IF edited.result # "ok" \/ cmd.no_restart
                 THEN "not attempted"
                 ELSE restart_service(cmd.restart, cmd.restart_ok)]

\* A command line and what its surroundings answer: accepts, write_ok and
\* restart_ok.
ConfigCmd(op, key, value, mode, no_restart, accepts, write_ok, restart_ok) ==
    [op |-> op, key |-> key, value |-> value, restart |-> mode,
     no_restart |-> no_restart, accepts |-> accepts, write_ok |-> write_ok,
     restart_ok |-> restart_ok]

CtlInit ==
    /\ cfg_disk \in DiskStates
    /\ ctl_cmd = Idle
    /\ ctl_out = Idle
    /\ pc = "shell"
    /\ RepIdle /\ DecayIdle /\ ScanIdle /\ SecretsIdle

ConfigSet ==
    /\ pc = "shell"
    /\ \E key \in DottedKeys, value \in ValueTexts, mode \in RestartModes,
          no_restart \in BOOLEAN, accepts \in BOOLEAN, write_ok \in BOOLEAN,
          restart_ok \in BOOLEAN :
          LET cmd == ConfigCmd("set", key, value, mode, no_restart, accepts,
                               write_ok, restart_ok)
              edited == set_config_value(cfg_disk, key, value, accepts,
                                         write_ok)
          IN  /\ ctl_cmd' = cmd
              /\ cfg_disk' = edited.disk
              /\ ctl_out' = AfterEdit(edited, cmd)
    /\ pc' = "exited"
    /\ UNCHANGED <<repVars, score, scanVars, secretsVars>>

ConfigUnset ==
    /\ pc = "shell"
    /\ \E key \in DottedKeys, mode \in RestartModes, no_restart \in BOOLEAN,
          accepts \in BOOLEAN, write_ok \in BOOLEAN, restart_ok \in BOOLEAN :
          LET cmd == ConfigCmd("unset", key, "", mode, no_restart, accepts,
                               write_ok, restart_ok)
              edited == unset_config_value(cfg_disk, key, accepts, write_ok)
          IN  /\ ctl_cmd' = cmd
              /\ cfg_disk' = edited.disk
              /\ ctl_out' = AfterEdit(edited, cmd)
    /\ pc' = "exited"
    /\ UNCHANGED <<repVars, score, scanVars, secretsVars>>

CtlNext == ConfigSet \/ ConfigUnset

SpecCtl == CtlInit /\ [][CtlNext]_vars

-----------------------------------------------------------------------------
(* Vocabulary of the properties.                                           *)

Done == pc = "done"

\* The effective risk of each record of the snapshot at the time of the call.
Eff(i) == effective_risk_score(now_unix, records[i], t)

\* The worst record's effective risk: the largest of the snapshot.
WorstRisk == Max({Eff(i) : i \in 1..Len(records)})

\* Record i is a maximum under the key (effective_risk, suspected_attack_count)
\* ordered lexicographically.
IsMaximal(i) ==
    \A j \in 1..Len(records) :
        \/ Eff(j) < Eff(i)
        \/ /\ Eff(j) = Eff(i)
           /\ records[j].suspected_attack_count
                <= records[i].suspected_attack_count

\* The reason appended first, right after the draft's reasons.
ContextReason == result.reasons[Len(decision.reasons) + 1]

\* Every text a "source reputation" reason about the snapshot can have.
SourceReputationTexts ==
    UNION {{SourceReputationReason(records[i], e) : e \in 0..records[i].risk_score} :
             i \in 1..Len(records)}

\* Every reordering of a list.
PermutationsOf(recs) ==
    LET n == Len(recs)
        Bijections == {f \in [1..n -> 1..n] : \A i, j \in 1..n : f[i] = f[j] => i = j}
    IN  {[i \in 1..n |-> recs[f[i]]] : f \in Bijections}

\* The result differs from the draft in a field of the verdict.
VerdictChanged ==
    \/ result.tools_allowed # decision.tools_allowed
    \/ result.risk_level # decision.risk_level
    \/ result.action # decision.action

IsPrefix(p, q) == Len(p) <= Len(q) /\ SubSeq(q, 1, Len(p)) = p

-----------------------------------------------------------------------------
(* Properties.                                                             *)

\* C1: bad-actor ceiling.  Whatever the draft, allow_tools and the order of
\* the thresholds, once the worst record's effective risk reaches
\* bad_actor_score the returned decision has tools off, risk High, and action
\* Block if the draft was Block and NeedsReview otherwise.
BadActorCeiling ==
    (Done /\ records # <<>> /\ WorstRisk >= t.bad_actor_score)
        => /\ result.tools_allowed = FALSE
           /\ result.risk_level = "High"
           /\ result.action =
                IF decision.action = "Block" THEN "Block" ELSE "NeedsReview"

\* An authorised, tool-granting Sanitize draft of Low risk met a source past
\* the bad-actor score but below the high score.
BadActorCeilingReached ==
    /\ Done /\ records # <<>>
    /\ WorstRisk >= t.bad_actor_score /\ WorstRisk < t.high_score
    /\ decision.tools_allowed /\ allow_tools
    /\ decision.action = "Sanitize" /\ decision.risk_level = "Low"
    /\ result.action = "NeedsReview"

\* C2 as stated: for every records list, the empty one included, the returned
\* decision allows tools only if the caller passed allow_tools = true.
CallerOptInAnyRecords ==
    Done => (result.tools_allowed => allow_tools)

\* C2, amended: for every non-empty records list the returned decision allows
\* tools only if the caller passed allow_tools = true.
CallerOptIn ==
    (Done /\ records # <<>>) => (result.tools_allowed => allow_tools)

\* A tool-granting draft without the caller's authorisation met a source below
\* the bad-actor score, and the tools were revoked.
CallerOptInReached ==
    /\ Done /\ records # <<>>
    /\ WorstRisk < t.bad_actor_score
    /\ decision.tools_allowed /\ ~allow_tools
    /\ ~result.tools_allowed

\* C3: apply_reputation never grants tools.  A draft with tools off comes back
\* with tools off, whatever allow_tools, the records and the thresholds are.
NeverGrantsTools ==
    (Done /\ ~decision.tools_allowed) => ~result.tools_allowed

\* A draft with tools off, an authorising caller and a source below the
\* bad-actor score.
NeverGrantsToolsReached ==
    /\ Done /\ records # <<>>
    /\ ~decision.tools_allowed /\ allow_tools
    /\ WorstRisk < t.bad_actor_score
    /\ ~result.tools_allowed

\* C4: Block is sticky.  A draft with action Block has action Block after
\* every rule of the chain and in the returned decision.
BlockIsSticky ==
    (Done /\ decision.action = "Block")
        => /\ \A i \in 1..Len(steps) : steps[i].action = "Block"
           /\ result.action = "Block"

\* A Block draft met a source past both the high and the bad-actor score.
BlockIsStickyReached ==
    /\ Done /\ records # <<>>
    /\ decision.action = "Block"
    /\ WorstRisk >= t.high_score /\ WorstRisk >= t.bad_actor_score
    /\ result.action = "Block"

\* C5: risk_level never decreases.  Under Low < Medium < High the returned
\* risk_level is at least the draft's, and no rule of the application lowers
\* the level it found.
RiskNeverDecreases ==
    Done
        => /\ RiskRank(result.risk_level) >= RiskRank(decision.risk_level)
           /\ \A i \in 1..(Len(steps) - 1) :
                RiskRank(steps[i + 1].risk_level) >= RiskRank(steps[i].risk_level)

\* A draft already at High met a source past the medium score only: the bump
\* ran on the top level.
RiskNeverDecreasesReached ==
    /\ Done /\ records # <<>>
    /\ decision.risk_level = "High"
    /\ WorstRisk >= t.medium_score
    /\ WorstRisk < t.high_score /\ WorstRisk < t.bad_actor_score
    /\ result.risk_level = "High"

\* C6: the threshold rules as a reference function.  For a non-empty list with
\* worst effective risk e: risk_level is High if e reaches high_score or
\* bad_actor_score, else one step above the draft's (saturating at High) if e
\* reaches medium_score, else the draft's; action is NeedsReview if the draft
\* is not Block and e reaches high_score or bad_actor_score, else the draft's.
ThresholdReference ==
    (Done /\ records # <<>>)
        => LET e == WorstRisk
               escalated == e >= t.high_score \/ e >= t.bad_actor_score
               draftRank == RiskRank(decision.risk_level)
           IN  /\ RiskRank(result.risk_level) =
                    IF escalated THEN 2
                    ELSE IF e >= t.medium_score
                         THEN (IF draftRank = 2 THEN 2 ELSE draftRank + 1)
                         ELSE draftRank
               /\ result.action =
                    IF decision.action # "Block" /\ escalated
                    THEN "NeedsReview"
                    ELSE decision.action

\* A Low draft met a source exactly at the medium score and below the other
\* two, and came back one step up.
ThresholdReferenceReached ==
    /\ Done /\ records # <<>>
    /\ WorstRisk = t.medium_score
    /\ WorstRisk < t.high_score /\ WorstRisk < t.bad_actor_score
    /\ decision.risk_level = "Low" /\ result.risk_level = "Medium"
    /\ decision.action = "Allow" /\ result.action = "Allow"

\* C7: identity on no reputation signal.  With an empty records list the
\* returned decision is the draft, every field unchanged, for both values of
\* allow_tools.
IdentityOnEmpty ==
    (Done /\ records = <<>>)
        => /\ result.tools_allowed = decision.tools_allowed
           /\ result.risk_level = decision.risk_level
           /\ result.action = decision.action
           /\ result.fenced_content = decision.fenced_content
           /\ result.reasons = decision.reasons
           /\ result.detected_patterns = decision.detected_patterns

\* A tool-granting draft went through with an empty list and no authorisation.
IdentityOnEmptyReached ==
    /\ Done /\ records = <<>>
    /\ decision.tools_allowed /\ ~allow_tools
    /\ result.tools_allowed

\* C8: order independence.  For a fixed draft, allow_tools, thresholds and
\* time, the returned decision, reasons included, is the same for every
\* permutation of the records list.
OrderIndependence ==
    Done => \A p \in PermutationsOf(records) :
                apply_reputation(decision, allow_tools, p, t, now_unix) = result

\* C9: worst-record selection.  The record named in the appended "source
\* reputation" reason is a maximum of the records under the lexicographic key
\* (effective_risk, suspected_attack_count): of two records with equal
\* effective risk the one with the higher count is named, wherever it stands.
WorstRecordSelected ==
    (Done /\ records # <<>>)
        => /\ \E i \in 1..Len(records) :
                ContextReason = SourceReputationReason(records[i], Eff(i))
           /\ \A i \in 1..Len(records) :
                ContextReason = SourceReputationReason(records[i], Eff(i))
                    => IsMaximal(i)

\* Two records of equal effective risk, the one with the higher count standing
\* second, and the reason names the second.
WorstRecordSelectedReached ==
    /\ Done /\ Len(records) = 2
    /\ Eff(1) = Eff(2)
    /\ records[1].suspected_attack_count < records[2].suspected_attack_count
    /\ ContextReason = SourceReputationReason(records[2], Eff(2))
    /\ ContextReason # SourceReputationReason(records[1], Eff(1))

\* C10: audit trail.  The draft's reasons are a prefix of the returned
\* reasons; a non-empty records list appends exactly one "source reputation"
\* reason, threshold crossed or not; and a result that differs from the draft
\* in tools_allowed, risk_level or action has strictly more reasons.
AuditTrail ==
    Done
        => /\ IsPrefix(decision.reasons, result.reasons)
           /\ records # <<>>
                => Cardinality({i \in (Len(decision.reasons) + 1)..Len(result.reasons) :
                                  result.reasons[i] \in SourceReputationTexts}) = 1
           /\ VerdictChanged => Len(result.reasons) > Len(decision.reasons)

\* A source of no remaining risk: nothing of the verdict changed and the only
\* reason added is the context reason.
AuditTrailReached ==
    /\ Done /\ records # <<>>
    /\ WorstRisk = 0
    /\ ~VerdictChanged
    /\ Len(result.reasons) = Len(decision.reasons) + 1
    /\ ContextReason \in SourceReputationTexts

\* C11: apply_reputation is a pure function of its four arguments.  Two calls
\* with equal decision, allow_tools, records and thresholds return equal
\* decisions whatever the wall-clock time of each call: the decision returned
\* at the time of this call is the one any other day's call returns.
ClockIndependence ==
    Done => \A day \in 0..MaxDays :
                apply_reputation(decision, allow_tools, records, t, day * DaySecs)
                    = result

\* R extended by one record r at position i (0 puts it first).
InsertAt(recs, i, r) ==
    SubSeq(recs, 1, i) \o <<r>> \o SubSeq(recs, i + 1, Len(recs))

\* C17: more reputation evidence never loosens the verdict.  For a fixed
\* draft, allow_tools, thresholds and time, adding any record anywhere to the
\* records list (the empty list included) gives a result whose risk_level is
\* at least as high, whose tools are off if they were off, and whose action
\* differs from the draft's if it did before.
MoreEvidenceNeverLoosens ==
    Done => \A r \in EvidenceRecords, i \in 0..Len(records) :
                LET more == apply_reputation(decision, allow_tools,
                                             InsertAt(records, i, r), t, now_unix)
                IN  /\ RiskRank(more.risk_level) >= RiskRank(result.risk_level)
                    /\ ~result.tools_allowed => ~more.tools_allowed
                    /\ result.action # decision.action
                         => more.action # decision.action

\* A call that left an authorised, tool-granting Low draft as it was, while one
\* more record in front would have capped the tools and escalated the rest.
MoreEvidenceNeverLoosensReached ==
    /\ Done /\ records # <<>>
    /\ result.tools_allowed /\ result.risk_level = "Low"
    /\ result.action = decision.action
    /\ \E r \in EvidenceRecords :
          LET more == apply_reputation(decision, allow_tools,
                                       InsertAt(records, 0, r), t, now_unix)
          IN  /\ ~more.tools_allowed
              /\ more.risk_level = "High"
              /\ more.action = "NeedsReview"

Scored == pc = "scored"

\* C12: decay monotonicity.  For every record with risk_score > 0 and any
\* thresholds from_env can load, the effective risk does not increase as the
\* age now - last_seen_unix grows (a record dated in the future has age zero),
\* and for a fixed age it does not decrease as suspected_attack_count grows.
DecayMonotone ==
    (Scored /\ records[1].risk_score > 0)
        => /\ \A day \in 0..MaxDays :
                AgeSecs(day * DaySecs, records[1]) >= AgeSecs(now_unix, records[1])
                    => effective_risk_score(day * DaySecs, records[1], t) <= score
           /\ \A c \in 0..MaxCount :
                c >= records[1].suspected_attack_count
                    => effective_risk_score(
                           now_unix,
                           [records[1] EXCEPT !.suspected_attack_count = c], t)
                         >= score

-----------------------------------------------------------------------------
(* Properties of the pre-scanner.                                          *)

Scanned == pc = "scanned"

\* The literal of the pattern called name.
Marker(name) ==
    PatternText(CHOOSE i \in 1..Len(PATTERNS) : PatternName(i) = name)

\* The scanned input contains the marker, letter case aside.
InputContains(name) ==
    \E b \in 1..Len(scan_input) : MatchesAt(scan_input, b, Marker(name))

\* The result's matches list the name.
Recorded(name) ==
    \E i \in 1..Len(scan_out.matches) : scan_out.matches[i] = name

DtdNames == {"doctype", "entity", "dtd_system", "dtd_public"}
SchemeNames == {"http", "https"}
AttributeNames == {"href", "xlink_href", "src"}

\* C13: once scanned, has_doctype is set whenever the input contains any of
\* the four DTD markers, has_entity is set whenever it contains <!entity,
\* and so has_entity implies has_doctype.
DtdEntityFlags ==
    Scanned =>
        /\ (\E n \in DtdNames : InputContains(n)) => scan_out.has_doctype
        /\ InputContains("entity") => scan_out.has_entity
        /\ scan_out.has_entity => scan_out.has_doctype

\* has_external_ref is set exactly when a scheme marker occurs.
ExternalRefIffScheme ==
    scan_out.has_external_ref <=> (\E n \in SchemeNames : InputContains(n))

\* Putting an attribute marker before or after the input changes neither
\* has_external_ref nor the severity.
AttributesAreNeutral ==
    \A n \in AttributeNames :
        \A longer \in {Marker(n) \o scan_input, scan_input \o Marker(n)} :
            LET o == scan(longer)
            IN  /\ o.has_external_ref = scan_out.has_external_ref
                /\ o.severity = scan_out.severity

\* href= occurs in the input somewhere other than at the end of an
\* xlink:href=.
BareHrefOccurs ==
    \E b \in 1..Len(scan_input) :
        /\ MatchesAt(scan_input, b, Marker("href"))
        /\ ~ (/\ b > 6
              /\ MatchesAt(scan_input, b - 6, Marker("xlink_href")))

\* C14, as stated: once scanned, has_external_ref is set exactly when the
\* input contains http:// or https://; every attribute marker the input
\* contains is listed in matches under its name; and attribute markers
\* change neither the flag nor the severity.
AttributesRecordedNotCounted ==
    Scanned =>
        /\ ExternalRefIffScheme
        /\ \A n \in AttributeNames : InputContains(n) => Recorded(n)
        /\ AttributesAreNeutral

\* C14, amended: as above, except that an href= which is only the end of an
\* xlink:href= is listed as xlink_href alone; src= and xlink:href= are
\* always listed, href= when it occurs on its own.
AttributesRecordedUnlessOverlapped ==
    Scanned =>
        /\ ExternalRefIffScheme
        /\ InputContains("src") => Recorded("src")
        /\ InputContains("xlink_href") => Recorded("xlink_href")
        /\ BareHrefOccurs => Recorded("href")
        /\ AttributesAreNeutral

\* An xlink:href= and nothing else of interest: listed once, as xlink_href,
\* no flag, no severity.
AttributesRecordedUnlessOverlappedReached ==
    /\ Scanned
    /\ InputContains("xlink_href")
    /\ scan_out.matches = <<"xlink_href">>
    /\ ~ scan_out.has_external_ref
    /\ scan_out.severity = 0

Weight(flag, w) == IF flag THEN w ELSE 0

\* C15: once scanned, the severity is 3 for has_entity plus 2 for
\* has_doctype plus 2 for has_scriptish plus 1 for has_external_ref of the
\* same result; so it lies in 0..8, is 0 exactly when no flag is set, does
\* not decrease when one more flag is set, and the empty input yields
\* severity 0 and no matches.
SeverityComposition ==
    Scanned =>
        LET o == scan_out
            flags == {"has_entity", "has_doctype", "has_scriptish",
                      "has_external_ref"}
        IN  /\ o.severity = Weight(o.has_entity, 3) + Weight(o.has_doctype, 2)
                            + Weight(o.has_scriptish, 2)
                            + Weight(o.has_external_ref, 1)
            /\ o.severity \in 0..8
            /\ (o.severity = 0) <=> (\A f \in flags : ~ o[f])
            /\ \A f \in flags :
                  Severity([o EXCEPT ![f] = TRUE]) >= o.severity
            /\ scan_input = <<>> => (o.severity = 0 /\ o.matches = <<>>)

\* Every flag set: the severity is 8.
SeverityCompositionReached ==
    /\ Scanned
    /\ scan_out.has_entity /\ scan_out.has_doctype
    /\ scan_out.has_scriptish /\ scan_out.has_external_ref
    /\ scan_out.severity = 8

-----------------------------------------------------------------------------
(* Properties of the startup.                                              *)

Built == pc = "built"

\* C16: once build_secrets_store has returned for a call with a secrets
\* file, the result is a store only if the file exists, neither its mode nor
\* its parent directory's mode has a group or other permission bit, and both
\* have the same owner; otherwise the result is an error, and the store is
\* never the environment-only one.
SecretFileAccessIsFatal ==
    (Built /\ secrets_file = "some") =>
        LET secure ==
                /\ fs_state.exists
                /\ (fs_state.mode % 512) % 64 = 0
                /\ fs_state.parent = "dir"
                /\ (fs_state.pmode % 512) % 64 = 0
                /\ fs_state.uid = fs_state.puid
        IN  /\ secrets_out.kind \in {"ok", "err"}
            /\ secrets_out.kind = "ok" => secure
            /\ ~ secure => secrets_out.kind = "err"
            /\ secrets_out # SecretsOk(<<"EnvStore">>)

\* A private file in a private directory of another owner: refused.
SecretFileAccessIsFatalReached ==
    /\ Built /\ secrets_file = "some"
    /\ fs_state.exists /\ fs_state.readable
    /\ (fs_state.mode % 512) % 64 = 0
    /\ fs_state.parent = "dir"
    /\ (fs_state.pmode % 512) % 64 = 0
    /\ fs_state.uid # fs_state.puid
    /\ secrets_out.kind = "err"

-----------------------------------------------------------------------------
(* Properties of acipctl.                                                  *)

\* C18: in every run of config set or config unset, a file that cannot be
\* read or parsed is reported as such; when reading, parsing or the
\* deserialization of the edited document fails the file is left as it was
\* and no restart is attempted; and a restart is attempted only when the
\* edit returned success and --no-restart was not given.
ValidateBeforeWrite ==
    [][(pc = "shell" /\ pc' = "exited") =>
          /\ cfg_disk.state = "missing" => ctl_out'.edit = "read"
          /\ cfg_disk.state = "garbage" => ctl_out'.edit = "parse toml"
          /\ ctl_out'.edit \in {"read", "parse toml", "validate config"} =>
                (cfg_disk' = cfg_disk /\ ctl_out'.restart = "not attempted")
          /\ ~ ctl_cmd'.accepts => cfg_disk' = cfg_disk
          /\ ctl_out'.restart # "not attempted" =>
                (ctl_out'.edit = "ok" /\ ~ ctl_cmd'.no_restart)]_vars

\* A set whose edited document the config struct refuses, restart wanted.
ValidateBeforeWriteReached ==
    /\ pc = "exited"
    /\ ctl_cmd.op = "set" /\ ~ ctl_cmd.no_restart /\ ctl_cmd.write_ok
    /\ ctl_out.edit = "validate config"
    /\ ctl_out.restart = "not attempted"
    /\ cfg_disk.state = "toml"

====
